---- MODULE Spec2Model ----
(***************************************************************************)
(* Model of tools/validate-steering.py: the SteeringValidator class        *)
(* (validate_file, validate_directory and their helpers) over a small      *)
(* filesystem.                                                             *)
(*                                                                         *)
(* A Python str is modelled as a sequence of one-character strings, so     *)
(* that startswith, split, strip, join, upper, endswith and the regular    *)
(* expression search are computed character by character as Python does.   *)
(***************************************************************************)
EXTENDS Integers, Sequences, FiniteSets, TLC

(***************************************************************************)
(* Python str operations                                                   *)
(***************************************************************************)
NL == "\n"

\* The characters str.strip() removes and the regex class \s matches.
Whitespace == {" ", "\t", "\n", "\r"}

UpperLetters == <<"A","B","C","D","E","F","G","H","I","J","K","L","M","N","O","P","Q","R","S","T","U","V","W","X","Y","Z">>

LowerLetters == <<"a","b","c","d","e","f","g","h","i","j","k","l","m","n","o","p","q","r","s","t","u","v","w","x","y","z">>

Digits == {"0", "1", "2", "3", "4", "5", "6", "7", "8", "9"}

MinOf(S) == CHOOSE x \in S : \A y \in S : x <= y

lower_char(c) ==
    IF \E i \in 1..Len(UpperLetters) : UpperLetters[i] = c
    THEN LowerLetters[CHOOSE i \in 1..Len(UpperLetters) : UpperLetters[i] = c]
    ELSE c

upper_char(c) ==
    IF \E i \in 1..Len(LowerLetters) : LowerLetters[i] = c
    THEN UpperLetters[CHOOSE i \in 1..Len(LowerLetters) : LowerLetters[i] = c]
    ELSE c

\* str.lower(); re.IGNORECASE compares characters up to case.
lower(s) == [i \in 1..Len(s) |-> lower_char(s[i])]

\* str.upper()
upper(s) == [i \in 1..Len(s) |-> upper_char(s[i])]

\* s[i:] with a 1-based first index
Tail_from(s, i) == SubSeq(s, i, Len(s))

\* str.startswith(p)
startswith(s, p) == Len(s) >= Len(p) /\ \A j \in 1..Len(p) : s[j] = p[j]

\* str.endswith(p)
endswith(s, p) == Len(s) >= Len(p) /\ \A j \in 1..Len(p) : s[Len(s) - Len(p) + j] = p[j]

\* The least index of s whose character is in chars, 0 when none is.
FirstIn(s, chars) ==
    IF \E i \in 1..Len(s) : s[i] \in chars
    THEN CHOOSE i \in 1..Len(s) : s[i] \in chars /\ \A j \in 1..(i - 1) : s[j] \notin chars
    ELSE 0

\* The greatest index of s whose character is in chars, 0 when none is.
LastIn(s, chars) ==
    IF \E k \in 0..(Len(s) - 1) : s[Len(s) - k] \in chars
    THEN Len(s) - (CHOOSE k \in 0..(Len(s) - 1) :
                      s[Len(s) - k] \in chars /\ \A j \in 0..(k - 1) : s[Len(s) - j] \notin chars)
    ELSE 0

\* The least index of s whose character is not in chars, 0 when all are.
FirstOutside(s, chars) ==
    IF \E i \in 1..Len(s) : s[i] \notin chars
    THEN CHOOSE i \in 1..Len(s) : s[i] \notin chars /\ \A j \in 1..(i - 1) : s[j] \in chars
    ELSE 0

\* The greatest index of s whose character is not in chars, 0 when all are.
LastOutside(s, chars) ==
    IF \E k \in 0..(Len(s) - 1) : s[Len(s) - k] \notin chars
    THEN Len(s) - (CHOOSE k \in 0..(Len(s) - 1) :
                      s[Len(s) - k] \notin chars /\ \A j \in 0..(k - 1) : s[Len(s) - j] \in chars)
    ELSE 0

\* str.strip()
strip(s) ==
    IF \A i \in 1..Len(s) : s[i] \in Whitespace THEN << >>
    ELSE SubSeq(s, FirstOutside(s, Whitespace),
                   LastOutside(s, Whitespace))

\* Whether sub occurs in s at index i.
occurs_at(s, sub, i) == i + Len(sub) - 1 <= Len(s) /\ \A j \in 1..Len(sub) : s[i + j - 1] = sub[j]

\* sub in s, for two strs
contains(s, sub) == \E i \in 1..(Len(s) - Len(sub) + 1) : occurs_at(s, sub, i)

\* The least index at which sub occurs in s, 0 when it does not.
find(s, sub) ==
    IF contains(s, sub)
    THEN CHOOSE i \in 1..Len(s) :
            occurs_at(s, sub, i) /\ \A j \in 1..(i - 1) : ~occurs_at(s, sub, j)
    ELSE 0

\* str.split(c) for a one-character separator c
RECURSIVE split(_, _)
split(s, c) ==
    IF \A i \in 1..Len(s) : s[i] # c THEN << s >>
    ELSE << SubSeq(s, 1, FirstIn(s, {c}) - 1) >>
         \o split(Tail_from(s, FirstIn(s, {c}) + 1), c)

\* sep.join(parts)
RECURSIVE join(_, _)
join(sep, parts) ==
    IF Len(parts) = 0 THEN << >>
    ELSE IF Len(parts) = 1 THEN parts[1]
    ELSE parts[1] \o sep \o join(sep, Tail(parts))

\* The concatenation of a sequence of sequences.
RECURSIVE Flatten(_)
Flatten(seqs) ==
    IF Len(seqs) = 0 THEN << >> ELSE Head(seqs) \o Flatten(Tail(seqs))

(***************************************************************************)
(* Python values, as yaml.safe_load returns them.  type is the value's     *)
(* type(...).__name__, s its str() rendering, items the elements of a list *)
(* or the [key, value] entries of a dict in insertion order.               *)
(***************************************************************************)
PyStr(s) == [type |-> <<"s","t","r">>, s |-> s, items |-> << >>]

PyInt(s) == [type |-> <<"i","n","t">>, s |-> s, items |-> << >>]

PyBool(s) == [type |-> <<"b","o","o","l">>, s |-> s, items |-> << >>]

PyNone == [type |-> <<"N","o","n","e","T","y","p","e">>, s |-> <<"N","o","n","e">>, items |-> << >>]

PyList(items) == [type |-> <<"l","i","s","t">>, s |-> << >>, items |-> items]

PyDict(entries) == [type |-> <<"d","i","c","t">>, s |-> << >>, items |-> entries]

\* The marker for yaml.YAMLError being raised instead of a value returned.
YAMLError == [type |-> <<"Y","A","M","L","E","r","r","o","r">>, s |-> << >>, items |-> << >>]

\* isinstance(value, expected_type)
isinstance(value, type_name) == value.type = type_name

\* key in d, for a dict d
dict_has(d, key) == \E i \in 1..Len(d.items) : d.items[i].key = key

\* d[key], for a dict d that has the key
dict_get(d, key) == d.items[CHOOSE i \in 1..Len(d.items) : d.items[i].key = key].value

\* d[key] = value: a new key goes last, an existing key keeps its place
dict_set(d, key, value) ==
    IF dict_has(d, key)
    THEN PyDict([i \in 1..Len(d.items) |->
                    IF d.items[i].key = key THEN [key |-> key, value |-> value]
                    ELSE d.items[i]])
    ELSE PyDict(Append(d.items, [key |-> key, value |-> value]))

\* hash(value) raises TypeError: the value cannot be looked up in a set
unhashable(value) == value.type \in {<<"l","i","s","t">>, <<"d","i","c","t">>}

(***************************************************************************)
(* yaml.safe_load, for the block-style subset the documents here use: one  *)
(* "key: value" entry, one "- item" entry or one plain scalar per line,    *)
(* with flow lists "[a, b]" and the empty flow mapping "{}" as values.     *)
(***************************************************************************)
yaml_null == {<< >>, <<"~">>, <<"n","u","l","l">>, <<"N","u","l","l">>, <<"N","U","L","L">>}

yaml_true == {<<"t","r","u","e">>, <<"T","r","u","e">>, <<"T","R","U","E">>}

yaml_false == {<<"f","a","l","s","e">>, <<"F","a","l","s","e">>, <<"F","A","L","S","E">>}

\* A plain scalar, resolved by the tags of YAML's core schema.
resolve_scalar(t) ==
    IF t \in yaml_null THEN PyNone
    ELSE IF t \in yaml_true THEN PyBool(<<"T","r","u","e">>)
    ELSE IF t \in yaml_false THEN PyBool(<<"F","a","l","s","e">>)
    ELSE IF \A i \in 1..Len(t) : t[i] \in Digits THEN PyInt(t)
    ELSE PyStr(t)

\* The flow list with the given element texts.
flow_list(parts) ==
    IF \E i \in 1..Len(parts) :
          \/ strip(parts[i]) = << >>
          \/ \E j \in 1..Len(parts[i]) : parts[i][j] \in {"[", "]", "{", "}"}
    THEN YAMLError
    ELSE PyList([i \in 1..Len(parts) |-> resolve_scalar(strip(parts[i]))])

\* A node in flow context: "[...]", "{}" or a plain scalar.
resolve_node(t) ==
    IF startswith(t, <<"[">>)
    THEN IF ~endswith(t, <<"]">>) THEN YAMLError
         ELSE IF strip(SubSeq(t, 2, Len(t) - 1)) = << >> THEN PyList(<< >>)
         ELSE flow_list(split(SubSeq(t, 2, Len(t) - 1), ","))
    ELSE IF startswith(t, <<"{">>)
    THEN IF t = <<"{","}">> THEN PyDict(<< >>) ELSE YAMLError
    ELSE IF contains(t, <<":"," ">>) \/ endswith(t, <<":">>) THEN YAMLError
    ELSE resolve_scalar(t)

\* What one stripped line of the block is: blank or comment, a mapping
\* entry (colon is where its ": " is, 0 for a trailing ":"), a sequence
\* entry, or a plain scalar.
line_kind(t, colon) ==
    IF t = << >> \/ startswith(t, <<"#">>) THEN "blank"
    ELSE IF t = <<"-">> \/ startswith(t, <<"-"," ">>) THEN "item"
    ELSE IF startswith(t, <<"[">>) \/ startswith(t, <<"{">>) THEN "plain"
    ELSE IF colon > 0 \/ endswith(t, <<":">>) THEN "entry"
    ELSE "plain"

entry_key(t, colon) ==
    IF colon > 0 THEN strip(SubSeq(t, 1, colon - 1)) ELSE SubSeq(t, 1, Len(t) - 1)

entry_value(t, colon) ==
    IF colon > 0 THEN resolve_node(strip(Tail_from(t, colon + 2))) ELSE PyNone

item_value(t) == resolve_node(strip(Tail_from(t, 2)))

\* The entry, item or scalar one stripped line holds: [kind, text, key, value]
parsed_as(t, colon, kind) ==
    [kind |-> kind,
     text |-> t,
     key |-> IF kind = "entry" THEN entry_key(t, colon) ELSE << >>,
     value |-> IF kind = "entry" THEN entry_value(t, colon)
               ELSE IF kind = "item" THEN item_value(t)
               ELSE IF kind = "plain" THEN resolve_node(t)
               ELSE PyNone]

parse_stripped(t, colon) == parsed_as(t, colon, line_kind(t, colon))

parse_line(line) == parse_stripped(strip(line), find(strip(line), <<":"," ">>))

\* The lines that hold something, parsed.
parse_lines(lines) ==
    SelectSeq([i \in 1..Len(lines) |-> parse_line(lines[i])], LAMBDA p : p.kind # "blank")

RECURSIVE load_mapping(_, _)
load_mapping(parsed, d) ==
    IF Len(parsed) = 0 THEN d
    ELSE load_mapping(Tail(parsed), dict_set(d, Head(parsed).key, Head(parsed).value))

\* The value the parsed lines make together; kinds is the set of their kinds.
compose(parsed, kinds) ==
    IF Len(parsed) = 0 THEN PyNone
    ELSE IF Cardinality(kinds) > 1 THEN YAMLError
    ELSE IF \E i \in 1..Len(parsed) : parsed[i].value.type = YAMLError.type THEN YAMLError
    ELSE IF kinds = {"entry"} THEN load_mapping(parsed, PyDict(<< >>))
    ELSE IF kinds = {"item"} THEN PyList([i \in 1..Len(parsed) |-> parsed[i].value])
    ELSE IF Len(parsed) = 1 THEN parsed[1].value
    \* several plain lines fold into one str, unless one opens a flow collection
    ELSE IF \E i \in 1..Len(parsed) : parsed[i].value.type \in {<<"l","i","s","t">>, <<"d","i","c","t">>}
    THEN YAMLError
    ELSE PyStr(join(<<" ">>, [i \in 1..Len(parsed) |-> parsed[i].text]))

load_parsed(parsed) == compose(parsed, {parsed[i].kind : i \in 1..Len(parsed)})

safe_load(text) == load_parsed(parse_lines(split(text, NL)))

(***************************************************************************)
(* The filesystem and os.path.  A path is a Python str; the tree is fixed, *)
(* except for the text of one document and for which of the optional       *)
(* entries (version-control markers, referenced files) are present.        *)
(***************************************************************************)
VARIABLES
    fs,         \* the filesystem: [doc: text of DocPath, present: optional paths]
    errors,     \* self.errors: a reference to (the index in heap of) a list
    heap,       \* the Python list objects created so far, each a sequence
    call,       \* the last call: [op, arg, raised]
    ret,        \* the reference validate_file returned (0: none)
    results,    \* the dict validate_directory returned: path -> reference
    budget      \* the number of calls still to be made

vars == << fs, errors, heap, call, ret, results, budget >>

\* The process's working directory.
Cwd == <<"/","r","e","p","o">>

DocsDir == <<"/","r","e","p","o","/","d","o","c","s">>

DocPath == <<"/","r","e","p","o","/","d","o","c","s","/","a",".","m","d">>

OtherPath == <<"/","r","e","p","o","/","d","o","c","s","/","s","u","b","/","b",".","m","d">>

LockedPath == <<"/","r","e","p","o","/","d","o","c","s","/","s","u","b","/","l","o","c","k","e","d",".","m","d">>

AbsentPath == <<"/","r","e","p","o","/","d","o","c","s","/","n","o","p","e",".","m","d">>

AbsentDir == <<"/","n","o","w","h","e","r","e">>

GitAtRoot == <<"/",".","g","i","t">>

GitAtRepo == <<"/","r","e","p","o","/",".","g","i","t">>

RefBeside == <<"/","r","e","p","o","/","d","o","c","s","/","r","e","f",".","t","x","t">>

RefAtRepo == <<"/","r","e","p","o","/","r","e","f",".","t","x","t">>

RefAtRoot == <<"/","r","e","f",".","t","x","t">>

OptionalPaths == {GitAtRoot, GitAtRepo, RefBeside, RefAtRepo, RefAtRoot}

\* os.path.join(a, b)
path_join(a, b) ==
    IF startswith(b, <<"/">>) THEN b
    ELSE IF a = << >> \/ endswith(a, <<"/">>) THEN a \o b
    ELSE a \o <<"/">> \o b

\* s.rstrip('/')
rstrip_slash(s) == SubSeq(s, 1, LastOutside(s, {"/"}))

\* os.path.dirname(p)
dirname(p) ==
    \* head = p[:i], i = p.rfind('/') + 1; it is stripped unless all slashes
    IF \E i \in 1..LastIn(p, {"/"}) : p[i] # "/"
    THEN rstrip_slash(SubSeq(p, 1, LastIn(p, {"/"})))
    ELSE SubSeq(p, 1, LastIn(p, {"/"}))

\* os.path.basename(p)
basename(p) ==
    Tail_from(p, LastIn(p, {"/"}) + 1)

\* The components of an absolute path with "", "." and ".." resolved.
RECURSIVE resolve_parts(_, _)
resolve_parts(parts, done) ==
    IF Len(parts) = 0 THEN done
    ELSE IF Head(parts) \in {<< >>, <<".">>} THEN resolve_parts(Tail(parts), done)
    ELSE IF Head(parts) = <<".",".">>
         THEN resolve_parts(Tail(parts),
                            IF Len(done) = 0 THEN done ELSE SubSeq(done, 1, Len(done) - 1))
    ELSE resolve_parts(Tail(parts), Append(done, Head(parts)))

\* os.path.abspath(p): normpath(join(getcwd(), p))
abspath(p) == <<"/">> \o join(<<"/">>, resolve_parts(split(path_join(Cwd, p), "/"), << >>))

\* The directory entries, in the order the operating system lists them.
Tree(f) ==
    << [path |-> <<"/","r","e","p","o">>,                 kind |-> "dir"],
       [path |-> <<"/","r","e","p","o","/","d","o","c","s">>,            kind |-> "dir"],
       [path |-> <<"/","r","e","p","o","/","d","o","c","s","/","R","E","A","D","M","E",".","m","d">>,  kind |-> "file"],
       [path |-> DocPath,                  kind |-> "file"],
       [path |-> <<"/","r","e","p","o","/","d","o","c","s","/","n","o","t","e","s",".","t","x","t">>,  kind |-> "file"],
       [path |-> <<"/","r","e","p","o","/","d","o","c","s","/","G","U","I","D","E",".","M","D">>,   kind |-> "file"],
       [path |-> <<"/","r","e","p","o","/","d","o","c","s","/","R","e","a","d","M","e",".","m","d">>,  kind |-> "file"],
       [path |-> <<"/","r","e","p","o","/","d","o","c","s","/","s","u","b">>,        kind |-> "dir"],
       [path |-> OtherPath,                kind |-> "file"],
       [path |-> LockedPath,               kind |-> "file"] >>
    \o SelectSeq(<< [path |-> GitAtRoot, kind |-> "dir"],
                    [path |-> GitAtRepo, kind |-> "dir"],
                    [path |-> RefBeside, kind |-> "file"],
                    [path |-> RefAtRepo, kind |-> "file"],
                    [path |-> RefAtRoot, kind |-> "file"] >>,
                 LAMBDA e : e.path \in f.present)

\* Whether the tree has an entry of one of the kinds at the absolute path.
in_tree(tree, full, kinds) ==
    \E i \in 1..Len(tree) : tree[i].path = full /\ tree[i].kind \in kinds

\* os.path.exists(p)
exists(f, p) == abspath(p) = <<"/">> \/ in_tree(Tree(f), abspath(p), {"dir", "file"})

\* os.path.isdir(p)
isdir(f, p) == abspath(p) = <<"/">> \/ in_tree(Tree(f), abspath(p), {"dir"})

\* Whether open(p).read() returns the text instead of raising: the path is
\* a regular file the process may read and its bytes decode as UTF-8.
readable(f, p) == in_tree(Tree(f), abspath(p), {"file"}) /\ abspath(p) # LockedPath

\* The text of a steering document that has the required frontmatter and
\* sections, but whose tags list is empty.
OtherDoc ==
    join(<< NL >>, << <<"-","-","-">>, <<"t","i","t","l","e",":"," ","O","t","h","e","r">>, <<"d","e","s","c","r","i","p","t","i","o","n",":"," ","D">>, <<"c","a","t","e","g","o","r","y",":"," ","s","e","c","u","r","i","t","y">>,
                   <<"t","a","g","s",":"," ","[","]">>, <<"i","n","c","l","u","s","i","o","n",":"," ","m","a","n","u","a","l">>, <<"-","-","-">>,
                   <<"#","#"," ","C","o","r","e"," ","P","r","i","n","c","i","p","l","e">>, <<"#","#"," ","H","o","w"," ","K","i","r","o"," ","W","i","l","l"," ","W","r","i","t","e">>, <<"#","#"," ","W","h","a","t"," ","T","h","i","s"," ","P","r","e","v","e","n","t","s">> >>)

\* open(p).read(), for a readable file
read(f, p) ==
    IF abspath(p) = DocPath THEN f.doc
    ELSE IF abspath(p) = OtherPath THEN OtherDoc
    ELSE <<"n","o","t","e","s">>

\* The last components of the entries' paths.
base_names(entries) == [i \in 1..Len(entries) |-> basename(entries[i].path)]

\* The names of the tree's entries of the given kind in the directory at
\* the absolute path, in listing order.
names_in(tree, full, kind) ==
    base_names(SelectSeq(tree, LAMBDA e : e.kind = kind /\ dirname(e.path) = full))

listdir(f, d, kind) == names_in(Tree(f), abspath(d), kind)

\* os.walk(top), top-down: the sequence of [root, files] it yields.
RECURSIVE walk(_, _)
walk_into(f, top, subdirs) ==
    << [root |-> top, files |-> listdir(f, top, "file")] >>
    \o Flatten([i \in 1..Len(subdirs) |-> walk(f, path_join(top, subdirs[i]))])

walk(f, top) == IF ~isdir(f, top) THEN << >> ELSE walk_into(f, top, listdir(f, top, "dir"))

(***************************************************************************)
(* ValidationError and SteeringValidator                                   *)
(***************************************************************************)
ValidationError(file_path, error_type, message) ==
    [file_path |-> file_path, error_type |-> error_type, message |-> message,
     line_number |-> "None"]

\* REQUIRED_FIELDS, in the order the dict literal lists (and iterates) them.
REQUIRED_FIELDS ==
    << [field |-> <<"t","i","t","l","e">>,       type |-> <<"s","t","r">>],
       [field |-> <<"d","e","s","c","r","i","p","t","i","o","n">>, type |-> <<"s","t","r">>],
       [field |-> <<"c","a","t","e","g","o","r","y">>,    type |-> <<"s","t","r">>],
       [field |-> <<"t","a","g","s">>,        type |-> <<"l","i","s","t">>],
       [field |-> <<"i","n","c","l","u","s","i","o","n">>,   type |-> <<"s","t","r">>] >>

OPTIONAL_FIELDS ==
    << [field |-> <<"a","u","t","h","o","r">>,          type |-> <<"s","t","r">>],
       [field |-> <<"v","e","r","s","i","o","n">>,         type |-> <<"s","t","r">>],
       [field |-> <<"k","i","r","o","_","v","e","r","s","i","o","n">>,    type |-> <<"s","t","r">>],
       [field |-> <<"d","e","p","e","n","d","e","n","c","i","e","s">>,    type |-> <<"l","i","s","t">>],
       [field |-> <<"f","i","l","e","_","r","e","f","e","r","e","n","c","e","s">>, type |-> <<"l","i","s","t">>] >>

\* VALID_CATEGORIES is a set; the sequence fixes the order in which this
\* process iterates it when ', '.join builds the message.
VALID_CATEGORIES ==
    << <<"c","o","d","e","-","q","u","a","l","i","t","y">>, <<"t","e","s","t","i","n","g">>, <<"s","e","c","u","r","i","t","y">>, <<"f","r","a","m","e","w","o","r","k","s">>, <<"w","o","r","k","f","l","o","w","s">> >>

VALID_INCLUSION_VALUES == << <<"a","l","w","a","y","s">>, <<"f","i","l","e","M","a","t","c","h">>, <<"m","a","n","u","a","l">> >>

Range(seq) == {seq[i] : i \in 1..Len(seq)}

\* value in a_set_of_strs, for a hashable value
in_str_set(value, members) == value.type = <<"s","t","r">> /\ value.s \in Range(members)

\* What a step of a call did: the errors it appended to self.errors, in
\* order, and whether it then raised an exception instead of returning.
Done(errs) == [errors |-> errs, raised |-> FALSE]

Raised(errs) == [errors |-> errs, raised |-> TRUE]

\* Statement a, then statement b unless a raised.
Then(a, b) ==
    IF a.raised THEN a ELSE [errors |-> a.errors \o b.errors, raised |-> b.raised]

RECURSIVE Sequentially(_)
Sequentially(steps) ==
    IF Len(steps) = 0 THEN Done(<< >>)
    ELSE Then(Head(steps), Sequentially(Tail(steps)))

\* content.startswith('---')
starts_with_delimiter(content) == startswith(content, <<"-","-","-">>)

\* The end of _extract_frontmatter, from the parse on.
parsed_frontmatter(file_path, frontmatter, body_content) ==
    IF frontmatter.type = YAMLError.type
    \* the text of the library's exception is left out of the message
    THEN [errors |-> << ValidationError(file_path, "YAML_SYNTAX_ERROR",
                                        <<"I","n","v","a","l","i","d"," ","Y","A","M","L"," ","s","y","n","t","a","x",":"," ">>) >>,
          frontmatter |-> PyNone, body |-> body_content]
    ELSE [errors |-> << >>, frontmatter |-> frontmatter, body |-> body_content]

\* _extract_frontmatter, from the search for the closing --- on; closing is
\* the set of the lines after the first that are --- once stripped (lines[i]
\* here is the code's lines[i - 1]).
split_frontmatter(file_path, content, lines, closing) ==
    IF closing = {}
    THEN [errors |-> << ValidationError(file_path, "INVALID_FRONTMATTER",
                                        <<"F","r","o","n","t","m","a","t","t","e","r"," ","n","o","t"," ","p","r","o","p","e","r","l","y"," ","c","l","o","s","e","d"," ","w","i","t","h"," ","-","-","-">>) >>,
          frontmatter |-> PyNone, body |-> content]
    ELSE parsed_frontmatter(file_path,
                            safe_load(join(<< NL >>, SubSeq(lines, 2, MinOf(closing) - 1))),
                            join(<< NL >>, SubSeq(lines, MinOf(closing) + 1, Len(lines))))

closing_lines(lines) == {i \in 2..Len(lines) : strip(lines[i]) = <<"-","-","-">>}

\* _extract_frontmatter: [errors, frontmatter, body]; frontmatter is PyNone
\* where the code returns None, and also where safe_load returns None.
_extract_frontmatter(file_path, content) ==
    IF ~starts_with_delimiter(content)
    THEN [errors |-> << ValidationError(file_path, "MISSING_FRONTMATTER",
                                        <<"F","i","l","e"," ","m","u","s","t"," ","s","t","a","r","t"," ","w","i","t","h"," ","Y","A","M","L"," ","f","r","o","n","t","m","a","t","t","e","r">>) >>,
          frontmatter |-> PyNone, body |-> content]
    ELSE split_frontmatter(file_path, content, split(content, NL),
                           closing_lines(split(content, NL)))

\* The body of the loop over REQUIRED_FIELDS (and, for a present field, of
\* the loop over OPTIONAL_FIELDS).
check_value_type(file_path, f, value) ==
    IF ~isinstance(value, f.type)
    THEN << ValidationError(file_path, "INVALID_FIELD_TYPE",
                            <<"F","i","e","l","d"," ","'">> \o f.field \o <<"'"," ","m","u","s","t"," ","b","e"," ","o","f"," ","t","y","p","e"," ">> \o f.type
                            \o <<","," ","g","o","t"," ">> \o value.type) >>
    ELSE << >>

check_field_type(file_path, frontmatter, f) ==
    check_value_type(file_path, f, dict_get(frontmatter, f.field))

check_required_field(file_path, frontmatter, f) ==
    IF ~dict_has(frontmatter, f.field)
    THEN << ValidationError(file_path, "MISSING_REQUIRED_FIELD",
                            <<"R","e","q","u","i","r","e","d"," ","f","i","e","l","d"," ","'">> \o f.field \o <<"'"," ","i","s"," ","m","i","s","s","i","n","g">>) >>
    ELSE check_field_type(file_path, frontmatter, f)

check_optional_field(file_path, frontmatter, f) ==
    IF dict_has(frontmatter, f.field)
    THEN check_field_type(file_path, frontmatter, f)
    ELSE << >>

\* if value not in members: append(...)
\* Looking an unhashable value up in a set raises TypeError.
check_member(file_path, value, members, error_type, label) ==
    IF unhashable(value) THEN Raised(<< >>)
    ELSE IF ~in_str_set(value, members)
    THEN Done(<< ValidationError(file_path, error_type,
                                 label \o <<" ","'">> \o value.s
                                 \o <<"'"," ","i","s"," ","n","o","t"," ","v","a","l","i","d","."," ","M","u","s","t"," ","b","e"," ","o","n","e"," ","o","f",":"," ">>
                                 \o join(<<","," ">>, members)) >>)
    ELSE Done(<< >>)

\* if key in frontmatter: if frontmatter[key] not in members: append(...)
check_enumerated(file_path, frontmatter, key, members, error_type, label) ==
    IF ~dict_has(frontmatter, key) THEN Done(<< >>)
    ELSE check_member(file_path, dict_get(frontmatter, key), members, error_type, label)

\* The checks of the value of 'tags'.
check_tags_value(file_path, tags) ==
    IF ~isinstance(tags, <<"l","i","s","t">>)
    THEN << ValidationError(file_path, "INVALID_TAGS", <<"T","a","g","s"," ","m","u","s","t"," ","b","e"," ","a"," ","l","i","s","t">>) >>
    ELSE IF Len(tags.items) = 0
    THEN << ValidationError(file_path, "EMPTY_TAGS", <<"T","a","g","s"," ","l","i","s","t"," ","c","a","n","n","o","t"," ","b","e"," ","e","m","p","t","y">>) >>
    ELSE [i \in 1..Len(SelectSeq(tags.items, LAMBDA tag : ~isinstance(tag, <<"s","t","r">>))) |->
             ValidationError(file_path, "INVALID_TAG_TYPE", <<"A","l","l"," ","t","a","g","s"," ","m","u","s","t"," ","b","e"," ","s","t","r","i","n","g","s">>)]

check_tags(file_path, frontmatter) ==
    IF ~dict_has(frontmatter, <<"t","a","g","s">>) THEN << >>
    ELSE check_tags_value(file_path, dict_get(frontmatter, <<"t","a","g","s">>))

_validate_frontmatter(file_path, frontmatter) ==
    IF ~isinstance(frontmatter, <<"d","i","c","t">>)
    THEN Done(<< ValidationError(file_path, "INVALID_FRONTMATTER",
                                 <<"F","r","o","n","t","m","a","t","t","e","r"," ","m","u","s","t"," ","b","e"," ","a"," ","Y","A","M","L"," ","o","b","j","e","c","t">>) >>)
    ELSE Sequentially(<<
        Done(Flatten([i \in 1..Len(REQUIRED_FIELDS) |->
                         check_required_field(file_path, frontmatter, REQUIRED_FIELDS[i])])),
        check_enumerated(file_path, frontmatter, <<"c","a","t","e","g","o","r","y">>, VALID_CATEGORIES,
                         "INVALID_CATEGORY", <<"C","a","t","e","g","o","r","y">>),
        check_enumerated(file_path, frontmatter, <<"i","n","c","l","u","s","i","o","n">>, VALID_INCLUSION_VALUES,
                         "INVALID_INCLUSION", <<"I","n","c","l","u","s","i","o","n">>),
        Done(check_tags(file_path, frontmatter)),
        Done(Flatten([i \in 1..Len(OPTIONAL_FIELDS) |->
                         check_optional_field(file_path, frontmatter, OPTIONAL_FIELDS[i])])) >>)

\* _find_repo_root: [found, dir]; found is FALSE where the code returns None.
RECURSIVE climb(_, _)
climb(f, current_dir) ==
    IF current_dir = dirname(current_dir) THEN [found |-> FALSE, dir |-> << >>]
    ELSE IF exists(f, path_join(current_dir, <<".","g","i","t">>))
    THEN [found |-> TRUE, dir |-> current_dir]
    ELSE climb(f, dirname(current_dir))

_find_repo_root(f, file_path) == climb(f, dirname(abspath(file_path)))

\* The body of the loop over file_references, for one element, once the
\* file is not found beside the document.
check_at_repo_root(f, file_path, ref, repo_root) ==
    IF ~exists(f, IF repo_root.found /\ repo_root.dir # << >>
                  THEN path_join(repo_root.dir, ref.s)
                  ELSE path_join(dirname(file_path), ref.s))
    THEN << ValidationError(file_path, "MISSING_FILE_REFERENCE",
                            <<"R","e","f","e","r","e","n","c","e","d"," ","f","i","l","e"," ","'">> \o ref.s \o <<"'"," ","d","o","e","s"," ","n","o","t"," ","e","x","i","s","t">>) >>
    ELSE << >>

\* The body of the loop over file_references, for one element.
check_reference(f, file_path, ref) ==
    IF ~isinstance(ref, <<"s","t","r">>) THEN << >>
    ELSE IF exists(f, path_join(dirname(file_path), ref.s)) THEN << >>
    ELSE check_at_repo_root(f, file_path, ref, _find_repo_root(f, file_path))

\* key in container: "raises" where Python raises TypeError
py_in(key, container) ==
    IF isinstance(container, <<"d","i","c","t">>)
    THEN [raises |-> FALSE, value |-> dict_has(container, key)]
    ELSE IF isinstance(container, <<"s","t","r">>)
    THEN [raises |-> FALSE, value |-> contains(container.s, key)]
    ELSE IF isinstance(container, <<"l","i","s","t">>)
    THEN [raises |-> FALSE,
          value |-> \E i \in 1..Len(container.items) :
                       isinstance(container.items[i], <<"s","t","r">>) /\ container.items[i].s = key]
    ELSE [raises |-> TRUE, value |-> FALSE]

\* _validate_file_references, once the key is known to be present.
check_references(f, file_path, frontmatter) ==
    \* frontmatter['file_references'] on a str or a list raises TypeError
    IF ~isinstance(frontmatter, <<"d","i","c","t">>) THEN Raised(<< >>)
    ELSE IF ~isinstance(dict_get(frontmatter, <<"f","i","l","e","_","r","e","f","e","r","e","n","c","e","s">>), <<"l","i","s","t">>) THEN Done(<< >>)
    ELSE Done(Flatten([i \in 1..Len(dict_get(frontmatter, <<"f","i","l","e","_","r","e","f","e","r","e","n","c","e","s">>).items) |->
                          check_reference(f, file_path,
                                          dict_get(frontmatter, <<"f","i","l","e","_","r","e","f","e","r","e","n","c","e","s">>).items[i])]))

\* _validate_file_references, given the outcome of
\* 'file_references' not in frontmatter.
references_if(f, file_path, frontmatter, present) ==
    IF present.raises THEN Raised(<< >>)
    ELSE IF ~present.value THEN Done(<< >>)
    ELSE check_references(f, file_path, frontmatter)

_validate_file_references(f, file_path, frontmatter) ==
    references_if(f, file_path, frontmatter, py_in(<<"f","i","l","e","_","r","e","f","e","r","e","n","c","e","s">>, frontmatter))

\* The phrases of required_sections; each pattern is ##, \s+, the phrase.
required_sections == << <<"C","o","r","e"," ","P","r","i","n","c","i","p","l","e">>, <<"H","o","w"," ","K","i","r","o"," ","W","i","l","l"," ","W","r","i","t","e">>, <<"W","h","a","t"," ","T","h","i","s"," ","P","r","e","v","e","n","t","s">> >>

\* re.search(r'##\s+' + phrase, body, re.IGNORECASE)
re_search(phrase, body) ==
    \E i \in 1..(Len(body) - 1) :
        /\ body[i] = "#"
        /\ body[i + 1] = "#"
        /\ \E k \in 1..(Len(body) - i - 1 - Len(phrase)) :
              /\ \A j \in (i + 2)..(i + 1 + k) : body[j] \in Whitespace
              /\ \A j \in 1..Len(phrase) :
                    lower_char(body[i + 1 + k + j]) = lower_char(phrase[j])

_validate_markdown_structure(file_path, body) ==
    IF strip(body) = << >>
    THEN << ValidationError(file_path, "EMPTY_BODY", <<"D","o","c","u","m","e","n","t"," ","b","o","d","y"," ","c","a","n","n","o","t"," ","b","e"," ","e","m","p","t","y">>) >>
    ELSE Flatten([i \in 1..Len(required_sections) |->
                    IF ~re_search(required_sections[i], body)
                    THEN << ValidationError(file_path, "MISSING_SECTION",
                                            <<"R","e","q","u","i","r","e","d"," ","s","e","c","t","i","o","n"," ","'">> \o required_sections[i]
                                            \o <<"'"," ","i","s"," ","m","i","s","s","i","n","g">>) >>
                    ELSE << >>])

\* The validator's state that a call reads and writes.
Validator(errs, hp) == [errors |-> errs, heap |-> hp]

\* __init__: self.errors = []
__init__ == Validator(1, << << >> >>)

\* The reset left out: the calls go on appending to the list they share.
keep_errors(self) == self

\* self.errors = []: the attribute is bound to a new, empty list object.
reset_errors(self) == Validator(Len(self.heap) + 1, Append(self.heap, << >>))

\* self.errors.append(e), for each e of errs in turn
append_errors(self, errs) == Validator(self.errors, [self.heap EXCEPT ![self.errors] = @ \o errs])

\* The statements of validate_file after _extract_frontmatter.
validate_extracted(f, file_path, extracted) ==
    Sequentially(<<
        Done(extracted.errors),
        IF extracted.frontmatter.type # PyNone.type
        THEN Then(_validate_frontmatter(file_path, extracted.frontmatter),
                  _validate_file_references(f, file_path, extracted.frontmatter))
        ELSE Done(<< >>),
        Done(_validate_markdown_structure(file_path, extracted.body)) >>)

\* The statements of validate_file after the reset.
validate_file_steps(f, file_path) ==
    IF ~exists(f, file_path)
    THEN Done(<< ValidationError(file_path, "FILE_NOT_FOUND", <<"F","i","l","e"," ","d","o","e","s"," ","n","o","t"," ","e","x","i","s","t">>) >>)
    ELSE IF ~readable(f, file_path)
    \* the text of the operating system's exception is left out of the message
    THEN Done(<< ValidationError(file_path, "READ_ERROR", <<"C","a","n","n","o","t"," ","r","e","a","d"," ","f","i","l","e",":"," ">>) >>)
    ELSE validate_extracted(f, file_path, _extract_frontmatter(file_path, read(f, file_path)))

\* What validate_file leaves and gives back: [self, raised, ret]; ret is
\* the reference returned (self.errors), 0 when the call raised instead.
file_outcome(after, raised) ==
    [self |-> after, raised |-> raised, ret |-> IF raised THEN 0 ELSE after.errors]

\* The reset, then the steps: each error is appended to the list self.errors
\* is bound to; the list is returned unless a step raised.
run_steps(self, steps) ==
    file_outcome(append_errors(reset_errors(self), steps.errors), steps.raised)

validate_file(f, self, file_path) == run_steps(self, validate_file_steps(f, file_path))

\* The files of one directory that validate_directory validates.
chosen_files(root, files) ==
    [j \in 1..Len(files) |-> path_join(root, files[j])]

\* The file_path values validate_directory passes to validate_file, in order.
paths_of(yielded) ==
    Flatten([i \in 1..Len(yielded) |->
                chosen_files(yielded[i].root,
                             SelectSeq(yielded[i].files,
                                       LAMBDA file : endswith(file, <<".","m","d">>)
                                                     /\ upper(file) # <<"R","E","A","D","M","E",".","M","D">>))])

walk_files(f, directory) == paths_of(walk(f, directory))

\* The loop of validate_directory: [self, raised, results]
RECURSIVE validate_each(_, _, _, _)
validate_next(f, one, file_paths, res) ==
    IF one.raised
    THEN [self |-> one.self, raised |-> TRUE, results |-> << >>]
    ELSE validate_each(f, one.self, Tail(file_paths), (Head(file_paths) :> one.ret) @@ res)

validate_each(f, self, file_paths, res) ==
    IF Len(file_paths) = 0 THEN [self |-> self, raised |-> FALSE, results |-> res]
    ELSE validate_next(f, validate_file(f, self, Head(file_paths)), file_paths, res)

\* validate_directory: [self, raised, results]; results maps each key of
\* the returned dict to the reference of its list.
validate_directory(f, self, directory) ==
    IF ~exists(f, directory)
    THEN [self |-> Validator(self.errors,
                             Append(self.heap,
                                    << ValidationError(directory, "DIRECTORY_NOT_FOUND",
                                                       <<"D","i","r","e","c","t","o","r","y"," ","d","o","e","s"," ","n","o","t"," ","e","x","i","s","t">>) >>)),
          raised |-> FALSE,
          results |-> (directory :> (Len(self.heap) + 1))]
    ELSE validate_each(f, self, walk_files(f, directory), << >>)

(***************************************************************************)
(* The documents and filesystems the calls are made on                     *)
(***************************************************************************)
\* The number of calls made on one validator.
MaxCalls == 2

ValidFrontmatter ==
    << <<"t","i","t","l","e",":"," ","T">>, <<"d","e","s","c","r","i","p","t","i","o","n",":"," ","D">>, <<"c","a","t","e","g","o","r","y",":"," ","t","e","s","t","i","n","g">>, <<"t","a","g","s",":"," ","[","x","]">>,
       <<"i","n","c","l","u","s","i","o","n",":"," ","a","l","w","a","y","s">> >>

ValidBody == << <<"#","#"," ","C","o","r","e"," ","P","r","i","n","c","i","p","l","e">>, <<"#","#"," ","H","o","w"," ","K","i","r","o"," ","W","i","l","l"," ","W","r","i","t","e">>, <<"#","#"," ","W","h","a","t"," ","T","h","i","s"," ","P","r","e","v","e","n","t","s">> >>

\* ValidFrontmatter with the line of one key replaced, or dropped.
WithLine(key, line) ==
    SelectSeq([i \in 1..Len(ValidFrontmatter) |->
                  IF startswith(ValidFrontmatter[i], key \o <<":">>) THEN line
                  ELSE ValidFrontmatter[i]],
              LAMBDA l : l # << >>)

Without(key) == WithLine(key, << >>)

RequiredKeys == {REQUIRED_FIELDS[i].field : i \in 1..Len(REQUIRED_FIELDS)}

\* Frontmatter blocks that decode to a mapping.
MappingBlocks ==
    {ValidFrontmatter, << <<"t","i","t","l","e",":"," ","T">> >>}
    \cup {Without(k) : k \in RequiredKeys}
    \cup {WithLine(k, k \o <<":"," ","5">>) : k \in RequiredKeys}
    \cup {WithLine(k, k \o <<":">>) : k \in {<<"t","i","t","l","e">>, <<"t","a","g","s">>}}
    \cup {WithLine(<<"c","a","t","e","g","o","r","y">>, <<"c","a","t","e","g","o","r","y",":"," ","b","o","g","u","s">>),
          WithLine(<<"c","a","t","e","g","o","r","y">>, <<"c","a","t","e","g","o","r","y",":"," ","[","a","]">>),
          WithLine(<<"i","n","c","l","u","s","i","o","n">>, <<"i","n","c","l","u","s","i","o","n",":"," ","n","e","v","e","r">>),
          WithLine(<<"i","n","c","l","u","s","i","o","n">>, <<"i","n","c","l","u","s","i","o","n",":"," ","{","}">>),
          WithLine(<<"i","n","c","l","u","s","i","o","n">>, <<"i","n","c","l","u","s","i","o","n",":"," ","t","r","u","e">>),
          WithLine(<<"t","a","g","s">>, <<"t","a","g","s",":"," ","n","o","p","e">>),
          WithLine(<<"t","a","g","s">>, <<"t","a","g","s",":"," ","[","]">>),
          WithLine(<<"t","a","g","s">>, <<"t","a","g","s",":"," ","[","x",","," ","3",","," ","t","r","u","e","]">>),
          WithLine(<<"t","a","g","s">>, <<"t","a","g","s",":"," ","[","3","]">>),
          << <<"c","a","t","e","g","o","r","y",":"," ","[","a","]">>, <<"t","a","g","s",":"," ","n","o","p","e">> >>,
          << <<"t","a","g","s",":"," ","[","]">>, <<"i","n","c","l","u","s","i","o","n",":"," ","{","}">> >>,
          ValidFrontmatter \o << <<"a","u","t","h","o","r",":"," ","5">>, <<"d","e","p","e","n","d","e","n","c","i","e","s",":"," ","n","o","n","e">> >>,
          ValidFrontmatter \o << <<"a","u","t","h","o","r",":"," ","A">>, <<"t","i","t","l","e",":"," ","7">> >>,
          ValidFrontmatter \o << <<"#"," ","a"," ","c","o","m","m","e","n","t">>, << >> >>}

\* Frontmatter blocks that name referenced files.
ReferenceBlocks ==
    {ValidFrontmatter \o << <<"f","i","l","e","_","r","e","f","e","r","e","n","c","e","s",":"," ","[","r","e","f",".","t","x","t","]">> >>,
     ValidFrontmatter \o << <<"f","i","l","e","_","r","e","f","e","r","e","n","c","e","s",":"," ","[","g","o","n","e",".","t","x","t",","," ","7",","," ","r","e","f",".","t","x","t","]">> >>,
     ValidFrontmatter \o << <<"f","i","l","e","_","r","e","f","e","r","e","n","c","e","s",":"," ","r","e","f",".","t","x","t">> >>,
     WithLine(<<"c","a","t","e","g","o","r","y">>, <<"c","a","t","e","g","o","r","y",":"," ","[","a","]">>) \o << <<"f","i","l","e","_","r","e","f","e","r","e","n","c","e","s",":"," ","[","g","o","n","e",".","t","x","t","]">> >>}

\* Frontmatter blocks that decode to something else, or do not decode.
OtherBlocks ==
    {<< >>, << <<"#"," ","n","o","t","h","i","n","g"," ","h","e","r","e">> >>, << <<"4","2">> >>, << <<"j","u","s","t"," ","t","e","x","t">> >>,
     << <<"s","e","e"," ","f","i","l","e","_","r","e","f","e","r","e","n","c","e","s">> >>, << <<"-"," ","a">>, <<"-"," ","b">> >>, << <<"-"," ","f","i","l","e","_","r","e","f","e","r","e","n","c","e","s">> >>,
     << <<"[","a",","," ","b","]">> >>, << <<"t","r","u","e">> >>, << <<"t","i","t","l","e",":"," ","[","a">> >>, << <<"t","i","t","l","e",":"," ","T">>, <<"o","o","p","s">> >>}

Bodies ==
    {ValidBody, << >>, << <<" "," "," ">>, << >> >>, << <<"t","e","x","t">> >>,
     << <<"#","#"," ","C","o","r","e"," ","P","r","i","n","c","i","p","l","e">>, <<"#","#"," ","H","o","w"," ","K","i","r","o"," ","W","i","l","l"," ","W","r","i","t","e">> >>,
     << <<"#","#","#"," ","C","o","r","e"," ","P","r","i","n","c","i","p","l","e">>, <<"#","#"," ","H","o","w"," ","K","i","r","o"," ","W","i","l","l"," ","W","r","i","t","e">>, <<"#","#"," ","W","h","a","t"," ","T","h","i","s"," ","P","r","e","v","e","n","t","s">> >>,
     << <<"s","e","e"," ","#","#"," ","C","o","r","e"," ","P","r","i","n","c","i","p","l","e">>, <<"#","#"," ","H","o","w"," ","K","i","r","o"," ","W","i","l","l"," ","W","r","i","t","e">>, <<"#","#"," ","W","h","a","t"," ","T","h","i","s"," ","P","r","e","v","e","n","t","s">> >>,
     << <<"#","#"," ","c","o","r","e"," ","p","r","i","n","c","i","p","l","e">>, <<"#","#"," ","H","O","W"," ","K","I","R","O"," ","W","I","L","L"," ","W","R","I","T","E">>, <<"#","#"," "," "," ","W","h","a","t"," ","T","h","i","s"," ","P","r","e","v","e","n","t","s">> >>,
     << <<"#","#">>, <<"C","o","r","e"," ","P","r","i","n","c","i","p","l","e">>, <<"#","#"," ","H","o","w"," ","K","i","r","o"," ","W","i","l","l"," ","W","r","i","t","e">>, <<"#","#"," ","W","h","a","t"," ","T","h","i","s"," ","P","r","e","v","e","n","t","s">> >>,
     << <<"#","#","C","o","r","e"," ","P","r","i","n","c","i","p","l","e">>, <<"#","#"," ","H","o","w"," ","K","i","r","o"," ","W","i","l","l"," ","W","r","i","t","e">>, <<"#","#"," ","W","h","a","t"," ","T","h","i","s"," ","P","r","e","v","e","n","t","s">> >>,
     << <<"#","#"," ","C","o","r","e"," "," ","P","r","i","n","c","i","p","l","e">>, <<"#","#"," ","H","o","w"," ","K","i","r","o"," ","W","i","l","l"," ","W","r","i","t","e">>, <<"#","#"," ","W","h","a","t"," ","T","h","i","s"," ","P","r","e","v","e","n","t","s">> >>,
     << <<"#","#"," ","C","o","r","e"," ","P","r","i","n","c","i","p","l","e","s">>, <<"#","#"," ","H","o","w"," ","K","i","r","o"," ","W","i","l","l"," ","W","r","i","t","e">>, <<"#","#"," ","W","h","a","t"," ","T","h","i","s"," ","P","r","e","v","e","n","t","s">> >>}

\* First lines: the delimiter, lines that only start like it, and others.
Openings == {<< <<"-","-","-">> >>, << <<"-","-","-","x">> >>, << <<"-","-","-"," ">> >>, << <<" ","-","-","-">> >>, << <<"#"," ","T","i","t","l","e">> >>, << >>}

\* Lines after the block: the delimiter, padded with whitespace, or none.
Closings == {<< <<"-","-","-">> >>, << <<" "," ","-","-","-"," ">> >>, << <<"-","-","-","-">> >>, << <<"-","-">> >>, << >>}

Document(opening, block, closing, body) ==
    join(<< NL >>, opening \o block \o closing \o body)

Filesystem(doc, present) == [doc |-> doc, present |-> present]

\* All the documents, each on a filesystem without optional entries, and
\* the documents with references on every filesystem.
AllFilesystems ==
    {Filesystem(Document(<< <<"-","-","-">> >>, block, << <<"-","-","-">> >>, body), {}) :
        block \in MappingBlocks \cup ReferenceBlocks \cup OtherBlocks,
        body \in {ValidBody, << >>, << <<"t","e","x","t">> >>}}
    \cup {Filesystem(Document(<< <<"-","-","-">> >>, ValidFrontmatter, << <<"-","-","-">> >>, body), {}) :
            body \in Bodies}
    \cup {Filesystem(Document(opening, block, closing, body), {}) :
            opening \in Openings, closing \in Closings,
            block \in {ValidFrontmatter, << >>},
            body \in {ValidBody, << >>, << <<"#","#"," ","C","o","r","e"," ","P","r","i","n","c","i","p","l","e">>, <<"#","#"," ","H","o","w"," ","K","i","r","o"," ","W","i","l","l"," ","W","r","i","t","e">> >>}}
    \cup {Filesystem(Document(<< <<"-","-","-">> >>, block, << <<"-","-","-">> >>, ValidBody), present) :
            block \in ReferenceBlocks, present \in SUBSET OptionalPaths}

\* A few of them, for sequences of calls.
SomeFilesystems ==
    {Filesystem(Document(<< <<"-","-","-">> >>, block, << <<"-","-","-">> >>, body), {GitAtRepo, RefAtRepo}) :
        block \in {ValidFrontmatter,
                   WithLine(<<"c","a","t","e","g","o","r","y">>, <<"c","a","t","e","g","o","r","y",":"," ","b","o","g","u","s">>),
                   WithLine(<<"c","a","t","e","g","o","r","y">>, <<"c","a","t","e","g","o","r","y",":"," ","[","a","]">>),
                   Without(<<"t","i","t","l","e">>),
                   << <<"4","2">> >>,
                   ValidFrontmatter \o << <<"f","i","l","e","_","r","e","f","e","r","e","n","c","e","s",":"," ","[","g","o","n","e",".","t","x","t",","," ","7",","," ","r","e","f",".","t","x","t","]">> >>},
        body \in {ValidBody, << <<"t","e","x","t">> >>}}

\* The arguments of the calls in a sequence of calls.
FileArgs == {DocPath, OtherPath, LockedPath, AbsentPath}

DirArgs == {DocsDir, AbsentDir}

\* The arguments of the one call on a document; the relative ones are
\* resolved against Cwd.
DocFileArgs == {DocPath, <<"d","o","c","s","/","a",".","m","d">>, DocsDir}

DocDirArgs == {DocsDir, <<"d","o","c","s">>, DocPath}

(***************************************************************************)
(* The state machine: calls on one SteeringValidator                       *)
(***************************************************************************)
NoCall == [op |-> "__init__", arg |-> << >>, raised |-> FALSE]

Fresh ==
    /\ errors = __init__.errors
    /\ heap = __init__.heap
    /\ call = NoCall
    /\ ret = 0
    /\ results = << >>

Init ==
    /\ fs \in SomeFilesystems
    /\ Fresh
    /\ budget = MaxCalls

InitDocs ==
    /\ fs \in AllFilesystems
    /\ Fresh
    /\ budget = 1

\* The state a call leaves: the validator, and what the caller got.
Leaves(op, arg, r, returned, dict) ==
    /\ errors' = r.self.errors
    /\ heap' = r.self.heap
    /\ call' = [op |-> op, arg |-> arg, raised |-> r.raised]
    /\ ret' = returned
    /\ results' = dict
    /\ budget' = budget - 1
    /\ UNCHANGED fs

FileLeaves(file_path, r) == Leaves("validate_file", file_path, r, r.ret, << >>)

DirectoryLeaves(directory, r) == Leaves("validate_directory", directory, r, 0, r.results)

ValidateFile(file_path) ==
    /\ budget > 0
    /\ FileLeaves(file_path, validate_file(fs, Validator(errors, heap), file_path))

ValidateDirectory(directory) ==
    /\ budget > 0
    /\ DirectoryLeaves(directory, validate_directory(fs, Validator(errors, heap), directory))

Next ==
    \/ \E file_path \in FileArgs : ValidateFile(file_path)
    \/ \E directory \in DirArgs : ValidateDirectory(directory)

NextDocs ==
    \/ \E file_path \in DocFileArgs : ValidateFile(file_path)
    \/ \E directory \in DocDirArgs : ValidateDirectory(directory)

\* Sequences of calls on one validator, over a few filesystems.
Spec == Init /\ [][Next]_vars

\* One call on a fresh validator, over all the documents and filesystems.
SpecDocs == InitDocs /\ [][NextDocs]_vars

(***************************************************************************)
(* What the properties below speak of                                      *)
(***************************************************************************)
\* The last call was validate_file on a file that exists and can be read.
FileRead ==
    /\ call.op = "validate_file"
    /\ readable(fs, call.arg)

\* The text of that file.
Content == read(fs, call.arg)

\* The list validate_file returned.
Result == heap[ret]

\* The number of the errors of a list that satisfy Test.
Count(list, Test(_)) == Cardinality({i \in 1..Len(list) : Test(list[i])})

OfType(list, error_type) == Count(list, LAMBDA e : e.error_type = error_type)

\* The error names the field, section or file: its message quotes it.
Names(e, name) == contains(e.message, <<"'">> \o name \o <<"'">>)

\* The codes of the checks that need the frontmatter mapping.
FrontmatterCodes ==
    {"MISSING_REQUIRED_FIELD", "INVALID_FIELD_TYPE", "INVALID_CATEGORY", "INVALID_INCLUSION",
     "INVALID_TAGS", "EMPTY_TAGS", "INVALID_TAG_TYPE", "MISSING_FILE_REFERENCE"}

BodyCodes == {"EMPTY_BODY", "MISSING_SECTION"}

\* The errors of a list with one of the codes, in order.
Only(list, codes) == SelectSeq(list, LAMBDA e : e.error_type \in codes)

\* The text has a block between a first line that starts with --- and a
\* later line that is --- once stripped.
HasBlock(content) ==
    /\ startswith(content, <<"-","-","-">>)
    /\ closing_lines(split(content, NL)) # {}

BlockText(content) ==
    join(<< NL >>, SubSeq(split(content, NL), 2, MinOf(closing_lines(split(content, NL))) - 1))

BodyText(content) ==
    IF HasBlock(content)
    THEN join(<< NL >>, SubSeq(split(content, NL),
                               MinOf(closing_lines(split(content, NL))) + 1,
                               Len(split(content, NL))))
    ELSE content

\* The value the block decodes to (YAMLError when it is not YAML).
Decoded(content) == safe_load(BlockText(content))

\* The last call validated a file whose frontmatter decodes to a mapping.
MappingRead ==
    /\ FileRead
    /\ HasBlock(Content)
    /\ Decoded(Content).type = <<"d","i","c","t">>

\* The body has a line that is a level-2 heading for the phrase: ##, then
\* whitespace, then the phrase in any case.
HeadingLine(line, phrase) ==
    \E k \in 1..Len(line) :
        /\ Len(line) >= 2 + k + Len(phrase)
        /\ line[1] = "#"
        /\ line[2] = "#"
        /\ \A j \in 3..(2 + k) : line[j] \in Whitespace
        /\ lower(SubSeq(line, 3 + k, 2 + k + Len(phrase))) = lower(phrase)

HasSection(body, phrase) ==
    \E i \in 1..Len(split(body, NL)) : HeadingLine(split(body, NL)[i], phrase)

(***************************************************************************)
(* C1: validate_file never raises: for every file that exists and can be   *)
(* read, whatever its frontmatter decodes to, the call returns a list.     *)
(***************************************************************************)
C1_NeverRaises ==
    FileRead => (~call.raised /\ ret \in 1..Len(heap))

(***************************************************************************)
(* C2: an empty result means the document is valid: its frontmatter is a   *)
(* mapping with the five required fields of the required types, category   *)
(* and inclusion are in their enumerations, tags is a non-empty list of    *)
(* strs, and the body is not blank and has the three sections.             *)
(***************************************************************************)
ValidMapping(d) ==
    /\ d.type = <<"d","i","c","t">>
    /\ \A i \in 1..Len(REQUIRED_FIELDS) :
          /\ dict_has(d, REQUIRED_FIELDS[i].field)
          /\ dict_get(d, REQUIRED_FIELDS[i].field).type = REQUIRED_FIELDS[i].type
    /\ dict_get(d, <<"c","a","t","e","g","o","r","y">>).s \in Range(VALID_CATEGORIES)
    /\ dict_get(d, <<"i","n","c","l","u","s","i","o","n">>).s \in Range(VALID_INCLUSION_VALUES)
    /\ dict_get(d, <<"t","a","g","s">>).items # << >>
    /\ \A i \in 1..Len(dict_get(d, <<"t","a","g","s">>).items) :
          dict_get(d, <<"t","a","g","s">>).items[i].type = <<"s","t","r">>

ValidDocument(content) ==
    /\ HasBlock(content)
    /\ ValidMapping(Decoded(content))
    /\ strip(BodyText(content)) # << >>
    /\ \A i \in 1..Len(required_sections) : re_search(required_sections[i], BodyText(content))

C2_EmptyMeansValid ==
    (FileRead /\ ~call.raised /\ Result = << >>) => ValidDocument(Content)

(***************************************************************************)
(* C3: when the frontmatter is YAML but not a mapping (a scalar, a list,   *)
(* null), the result has exactly one INVALID_FRONTMATTER, none of the      *)
(* codes that need the mapping, and the body checks of the body.           *)
(***************************************************************************)
C3_NotAMapping ==
    (/\ FileRead
     /\ HasBlock(Content)
     /\ Decoded(Content).type \notin {<<"d","i","c","t">>, YAMLError.type})
    => /\ ~call.raised
       /\ OfType(Result, "INVALID_FRONTMATTER") = 1
       /\ Only(Result, FrontmatterCodes) = << >>
       /\ Only(Result, BodyCodes)
            = _validate_markdown_structure(call.arg, BodyText(Content))

FirstLineIsDelimiter(content) == split(content, NL)[1] = <<"-","-","-">>

LaterLineIsDelimiter(content) ==
    \E i \in 2..Len(split(content, NL)) : split(content, NL)[i] = <<"-","-","-">>

\* The result has no error that needs the mapping, and has the errors of
\* the body checks applied to the whole text.
WholeTextIsBody ==
    /\ Only(Result, FrontmatterCodes) = << >>
    /\ Only(Result, BodyCodes) = _validate_markdown_structure(call.arg, Content)

(***************************************************************************)
(* C4: a document that does not begin with a --- delimiter line gets       *)
(* exactly one MISSING_FRONTMATTER; one with the opening line but no later *)
(* line that is exactly --- gets INVALID_FRONTMATTER; in both cases no     *)
(* error that needs the mapping is reported and the body checks are        *)
(* applied to the whole text.                                              *)
(***************************************************************************)
C4_DelimiterLines ==
    FileRead =>
        /\ ~FirstLineIsDelimiter(Content)
             => (/\ ~call.raised
                 /\ OfType(Result, "MISSING_FRONTMATTER") = 1
                 /\ WholeTextIsBody)
        /\ (FirstLineIsDelimiter(Content) /\ ~LaterLineIsDelimiter(Content))
             => (/\ ~call.raised
                 /\ OfType(Result, "INVALID_FRONTMATTER") >= 1
                 /\ WholeTextIsBody)

\* The number of errors of the result with the code that name the field.
FieldErrors(error_type, field) ==
    Count(Result, LAMBDA e : e.error_type = error_type /\ Names(e, field))

FieldVerdict(d, f) ==
    IF ~dict_has(d, f.field)
    THEN /\ FieldErrors("MISSING_REQUIRED_FIELD", f.field) = 1
         /\ FieldErrors("INVALID_FIELD_TYPE", f.field) = 0
    ELSE IF dict_get(d, f.field).type # f.type
    THEN /\ FieldErrors("INVALID_FIELD_TYPE", f.field) = 1
         /\ FieldErrors("MISSING_REQUIRED_FIELD", f.field) = 0
    ELSE /\ FieldErrors("INVALID_FIELD_TYPE", f.field) = 0
         /\ FieldErrors("MISSING_REQUIRED_FIELD", f.field) = 0

(***************************************************************************)
(* C5: missing takes precedence over type mismatch: for every frontmatter  *)
(* mapping and required field f, an absent f gets exactly one              *)
(* MISSING_REQUIRED_FIELD naming f and no INVALID_FIELD_TYPE naming f; f   *)
(* present with a value of the wrong type gets exactly one                 *)
(* INVALID_FIELD_TYPE naming f and no MISSING_REQUIRED_FIELD naming f; f   *)
(* present with the right type gets neither.                               *)
(***************************************************************************)
C5_MissingBeforeType ==
    MappingRead =>
        /\ ~call.raised
        /\ \A i \in 1..Len(REQUIRED_FIELDS) : FieldVerdict(Decoded(Content), REQUIRED_FIELDS[i])

TagsVerdict(d) ==
    IF ~dict_has(d, <<"t","a","g","s">>)
    THEN /\ OfType(Result, "INVALID_TAGS") = 0
         /\ OfType(Result, "EMPTY_TAGS") = 0
         /\ OfType(Result, "INVALID_TAG_TYPE") = 0
    ELSE IF dict_get(d, <<"t","a","g","s">>).type # <<"l","i","s","t">>
    THEN /\ OfType(Result, "INVALID_TAGS") >= 1
         /\ OfType(Result, "EMPTY_TAGS") = 0
         /\ OfType(Result, "INVALID_TAG_TYPE") = 0
    ELSE IF dict_get(d, <<"t","a","g","s">>).items = << >>
    THEN /\ OfType(Result, "INVALID_TAGS") = 0
         /\ OfType(Result, "EMPTY_TAGS") >= 1
         /\ OfType(Result, "INVALID_TAG_TYPE") = 0
    ELSE /\ OfType(Result, "INVALID_TAGS") = 0
         /\ OfType(Result, "EMPTY_TAGS") = 0
         /\ OfType(Result, "INVALID_TAG_TYPE")
              = Count(dict_get(d, <<"t","a","g","s">>).items, LAMBDA tag : tag.type # <<"s","t","r">>)

(***************************************************************************)
(* C6: the three tag errors exclude each other and cover every bad tags    *)
(* value: in a frontmatter mapping, tags that is not a list gets           *)
(* INVALID_TAGS only, an empty list EMPTY_TAGS only, a non-empty list one  *)
(* INVALID_TAG_TYPE per element that is not a str and neither of the other *)
(* two; absent tags gets none of the three.                                *)
(***************************************************************************)
C6_TagErrors ==
    MappingRead => (~call.raised /\ TagsVerdict(Decoded(Content)))

\* What validate_file does for the path on a validator just constructed.
FirstCall(file_path) == validate_file(fs, __init__, file_path)

\* The list that call returns.
FirstList(file_path) == FirstCall(file_path).self.heap[FirstCall(file_path).ret]

\* A step leaves every list that exists as it was.
ListsKept == \A i \in 1..Len(heap) : heap'[i] = heap[i]

\* A step that is validate_file ends as a first call on a fresh validator.
FileAsFirst ==
    call'.op = "validate_file" =>
        /\ call'.raised = FirstCall(call'.arg).raised
        /\ ~call'.raised => heap'[ret'] = FirstList(call'.arg)

\* A step that is validate_directory gives every file the list of a first
\* call on a fresh validator.
DirectoryAsFirst ==
    (call'.op = "validate_directory" /\ ~call'.raised /\ exists(fs, call'.arg)) =>
        \A file_path \in DOMAIN results' :
            heap'[results'[file_path]] = FirstList(file_path)

(***************************************************************************)
(* C7: validation keeps no state across calls: after any earlier calls on  *)
(* the same validator, validate_file(p) ends as a first call on a fresh    *)
(* validator does and returns the same list, in order and content, and no  *)
(* list an earlier call returned is modified by a later call.              *)
(***************************************************************************)
C7_NoStateAcrossCalls == [][ListsKept /\ FileAsFirst /\ DirectoryAsFirst]_vars

\* A second call returned errors while the list of the first call, which
\* also has errors, is still there.
C7_Witness ==
    /\ budget = MaxCalls - 2
    /\ call.op = "validate_file"
    /\ ~call.raised
    /\ Result # << >>
    /\ \E i \in 1..Len(heap) : i # ret /\ heap[i] # << >>

\* The files validate_directory is to validate: those under root, at any
\* depth, named *.md and not README.MD in any case; each as root joined
\* with the path from root to the file.
ExpectedKeys(f, root) ==
    {path_join(root, Tail_from(Tree(f)[i].path, Len(abspath(root)) + 2)) :
        i \in {j \in 1..Len(Tree(f)) :
                 /\ Tree(f)[j].kind = "file"
                 /\ startswith(Tree(f)[j].path, abspath(root) \o <<"/">>)
                 /\ endswith(basename(Tree(f)[j].path), <<".","m","d">>)
                 /\ upper(basename(Tree(f)[j].path)) # <<"R","E","A","D","M","E",".","M","D">>}}

(***************************************************************************)
(* C8: validate_directory(root) on an existing root returns a mapping      *)
(* whose keys are exactly the files under root, at any depth, named *.md   *)
(* and not README.MD in any case; each key maps to the list validate_file  *)
(* gives for that file, whose errors all carry that path.  For a root that *)
(* does not exist the mapping has the one key root, with one               *)
(* DIRECTORY_NOT_FOUND error.                                              *)
(***************************************************************************)
C8_DirectoryMapping ==
    call.op = "validate_directory" =>
        /\ ~call.raised
        /\ IF exists(fs, call.arg)
           THEN /\ DOMAIN results = ExpectedKeys(fs, call.arg)
                /\ \A file_path \in DOMAIN results :
                      /\ ~FirstCall(file_path).raised
                      /\ heap[results[file_path]] = FirstList(file_path)
                      /\ \A i \in 1..Len(heap[results[file_path]]) :
                            heap[results[file_path]][i].file_path = file_path
           ELSE /\ DOMAIN results = {call.arg}
                /\ Len(heap[results[call.arg]]) = 1
                /\ heap[results[call.arg]][1].error_type = "DIRECTORY_NOT_FOUND"

\* The directories from dir upward, short of the filesystem root.
Ancestors(dir) ==
    {SubSeq(dir, 1, k) : k \in {j \in 1..Len(dir) : j = Len(dir) \/ dir[j + 1] = "/"}}

\* Those that contain the version-control marker.
MarkedAncestors(f, dir) == {d \in Ancestors(dir) : exists(f, path_join(d, <<".","g","i","t">>))}

\* The nearest of them: the longest.
NearestMarked(f, dir) ==
    CHOOSE d \in MarkedAncestors(f, dir) : \A e \in MarkedAncestors(f, dir) : Len(e) <= Len(d)

\* The referenced file exists beside the document or at the repository root.
ReferenceExists(f, file_path, ref) ==
    \/ exists(f, path_join(dirname(file_path), ref))
    \/ /\ MarkedAncestors(f, dirname(abspath(file_path))) # {}
       /\ exists(f, path_join(NearestMarked(f, dirname(abspath(file_path))), ref))

\* The error list reports, for each str element of refs that does not
\* exist, MISSING_FILE_REFERENCE naming it, and nothing else with the code.
ReferencesVerdict(refs) ==
    /\ \A i \in 1..Len(refs) :
          refs[i].type = <<"s","t","r">> =>
              ((\E j \in 1..Len(Result) :
                    /\ Result[j].error_type = "MISSING_FILE_REFERENCE"
                    /\ Names(Result[j], refs[i].s))
               <=> ~ReferenceExists(fs, call.arg, refs[i].s))
    /\ OfType(Result, "MISSING_FILE_REFERENCE")
         = Count(refs, LAMBDA ref : ref.type = <<"s","t","r">> /\ ~ReferenceExists(fs, call.arg, ref.s))

\* The elements of file_references when it is a list, none otherwise.
ReferenceList(d) ==
    IF dict_has(d, <<"f","i","l","e","_","r","e","f","e","r","e","n","c","e","s">>) /\ dict_get(d, <<"f","i","l","e","_","r","e","f","e","r","e","n","c","e","s">>).type = <<"l","i","s","t">>
    THEN dict_get(d, <<"f","i","l","e","_","r","e","f","e","r","e","n","c","e","s">>).items
    ELSE << >>

(***************************************************************************)
(* C9: for a frontmatter mapping whose file_references is a list,          *)
(* MISSING_FILE_REFERENCE naming ref is reported for a str element ref if  *)
(* and only if ref exists neither relative to the directory of the         *)
(* document nor relative to the repository root, the nearest directory     *)
(* upward from the document's that contains the version-control marker;    *)
(* without such a directory the error is reported.  Elements that are not  *)
(* strs, a value that is not a list and an absent key produce none.        *)
(***************************************************************************)
C9_FileReferences ==
    MappingRead => (~call.raised /\ ReferencesVerdict(ReferenceList(Decoded(Content))))

\* The number of MISSING_SECTION errors of the result that name the phrase.
SectionErrors(phrase) ==
    Count(Result, LAMBDA e : e.error_type = "MISSING_SECTION" /\ Names(e, phrase))

(***************************************************************************)
(* C10: a body that is empty or only whitespace gets exactly one           *)
(* EMPTY_BODY and no MISSING_SECTION; for any other body, MISSING_SECTION  *)
(* naming a section is reported exactly once if and only if the body has   *)
(* no line that is a level-2 heading for it: ##, whitespace, the phrase in *)
(* any case.  A deeper heading (### Core Principle), or ## Core Principle  *)
(* in the middle of a line, is not the section.                            *)
(***************************************************************************)
C10_BodyStructure ==
    (FileRead /\ ~call.raised) =>
        IF strip(BodyText(Content)) = << >>
        THEN /\ OfType(Result, "EMPTY_BODY") = 1
             /\ OfType(Result, "MISSING_SECTION") = 0
        ELSE \A i \in 1..Len(required_sections) :
                SectionErrors(required_sections[i])
                  = IF HasSection(BodyText(Content), required_sections[i]) THEN 0 ELSE 1

====
